---- MODULE Spec2Model ----
(***************************************************************************)
(* Model of src/src/ws.rs: the Polymarket CLOB WebSocket price monitor.    *)
(*                                                                         *)
(* run() loops forever over connect_and_stream(); connect_and_stream()     *)
(* opens the socket, sends one subscription, creates an empty ask_state    *)
(* map and reads frames one at a time; handle_message() routes each text   *)
(* frame to print_price_change() or seed_state_from_book().                *)
(*                                                                         *)
(* Conventions                                                             *)
(*   Option<T>      a sequence of length 0 (None) or 1 (Some)              *)
(*   decimal text   a sequence of one-character strings, so that parsing   *)
(*                  and formatting are computed and are not the identity   *)
(*   f64            [nan |-> BOOLEAN, c |-> hundredths]; every decimal     *)
(*                  text of the model has at most two fractional digits,   *)
(*                  and on such inputs f64 addition followed by `< 0.98`   *)
(*                  and by `{:.2}` agrees with exact decimal arithmetic    *)
(*   JSON field     Option of its string value: `get(..).and_then(as_str)` *)
(*                  yields None both for a missing and for a non-string    *)
(*                  field, and the code never tells the two apart          *)
(***************************************************************************)
EXTENDS Integers, Sequences, FiniteSets, TLC

VARIABLES
    tokens,      \* run's argument: Vec<(String, String)>, fixed at startup
    pc,          \* where the supervisor task is suspended
    result,      \* outcome of the connection attempt: "none" while it runs
    ask_state,   \* connect_and_stream's local HashMap<String, f64>
    nsubs,       \* subscription messages sent on the current socket
    sub_sent,    \* the last subscription message sent, as an Option
    nframes,     \* frames read from the current socket
    lastFrame,   \* the frame handled by the latest loop iteration
    outbox,      \* what the latest step sent on the socket
    lines,       \* price lines the latest step printed
    logs,        \* "[WS] ..." diagnostics the latest step printed
    lastRecv,    \* per token id, the ask carried by the latest message of this
                 \* connection that carried one
    prior_asks,  \* whether the map of the previous streaming connection knew
                 \* the asks of t1 and t2 when it was dropped
    io,          \* how the latest operation on the socket came out: "none"
                 \* before the first one of an attempt
    wait,        \* seconds of the sleep run is suspended in, 0 when in none
    nconns,      \* sockets that are open
    text_store   \* the map that the texts of the current connection determine
                 \* by themselves: handle_message applied to them in order,
                 \* from an empty map

vars == <<tokens, pc, result, ask_state, nsubs, sub_sent, nframes, lastFrame,
          outbox, lines, logs, lastRecv, prior_asks, io, wait, nconns, text_store>>

\* ------------------------------------------------------------------ bounds
\* Frames one connection may deliver before the transport ends it.
MaxFrames == 3

\* ------------------------------------------------------------------ options
None == <<>>

Some(x) == <<x>>

IsSome(o) == o # <<>>

Unwrap(o) == o[1]

UnwrapOr(o, d) == IF o = <<>> THEN d ELSE o[1]

\* ------------------------------------------------------------------ f64
F64(cents) == [nan |-> FALSE, c |-> cents]

NaN == [nan |-> TRUE, c |-> 0]

Digits == <<"0", "1", "2", "3", "4", "5", "6", "7", "8", "9">>

IsDigit(ch) == \E i \in 1..10 : Digits[i] = ch

DigitVal(ch) == (CHOOSE i \in 1..10 : Digits[i] = ch) - 1

AllDigits(s) == \A i \in 1..Len(s) : IsDigit(s[i])

RECURSIVE DecVal(_)
DecVal(s) == IF s = <<>> THEN 0
             ELSE 10 * DecVal(SubSeq(s, 1, Len(s) - 1)) + DigitVal(s[Len(s)])

\* index of the first ".", or Len(s) + 1 when there is none
DotAt(s) ==
    CHOOSE i \in 1..(Len(s) + 1) :
        /\ i = Len(s) + 1 \/ s[i] = "."
        /\ \A j \in 1..(i - 1) : s[j] # "."

\* str::parse::<f64>() on the texts of the model: [digits][.digits] with at
\* least one digit, or NaN; anything else is an Err (None after .ok()).
ParseF64(s) ==
    IF s = <<"N", "a", "N">> THEN Some(NaN)
    ELSE LET d  == DotAt(s)
             ip == SubSeq(s, 1, d - 1)
             fp == SubSeq(s, d + 1, Len(s))
         IN IF ~AllDigits(ip) \/ ~AllDigits(fp) \/ Len(ip) + Len(fp) = 0
                \/ Len(fp) > 2
            THEN None
            ELSE Some(F64(100 * DecVal(ip)
                          + (IF Len(fp) = 1 THEN 10 * DecVal(fp) ELSE DecVal(fp))))

\* a + b on f64
AddF64(a, b) == IF a.nan \/ b.nan THEN NaN ELSE F64(a.c + b.c)

\* Variant of LessThanThreshold: s <= 0.98.
AtMostThreshold(s) == ~s.nan /\ s.c <= 98

\* s < 0.98 on f64: every comparison with NaN is false
LessThanThreshold(s) == ~s.nan /\ s.c < 98

RECURSIVE NatText(_)
NatText(n) == IF n < 10 THEN <<Digits[n + 1]>>
              ELSE NatText(n \div 10) \o <<Digits[(n % 10) + 1]>>

\* format!("{v:.2}")
Fmt2(v) == IF v.nan THEN <<"N", "a", "N">>
           ELSE NatText(v.c \div 100) \o <<".">>
                \o <<Digits[((v.c % 100) \div 10) + 1], Digits[(v.c % 10) + 1]>>

\* The em-dash placeholder (U+2014) of lines 129-131.
EmDash == <<"U+2014">>

\* The arbitrage marker of line 132: " <- ARB" with U+2190 for the arrow.
ArbMarker == " U+2190 ARB"

\* ------------------------------------------------------------------ maps
\* unwrap_or("") of lines 101, 115, 116: the key used for a record without id
NoId == ""

\* Token ids the feed of the model mentions; "t3" is never in the startup table.
TokenIds == {"t1", "t2", "t3"}

Keys == {NoId} \cup TokenIds

\* HashMap::new()
EmptyMap == [k \in Keys |-> None]

\* Variant of Insert: a value is added to the entry that exists.
InsertAccumulate(m, k, v) ==
    [m EXCEPT ![k] = IF m[k] = None THEN Some(v) ELSE Some(AddF64(Unwrap(m[k]), v))]

\* Variant of Insert: an entry that exists is kept (first value wins).
InsertIfAbsent(m, k, v) == IF m[k] = None THEN [m EXCEPT ![k] = Some(v)] ELSE m

\* HashMap::insert: overwrite
Insert(m, k, v) == [m EXCEPT ![k] = Some(v)]

\* HashMap::get
MapGet(m, k) == IF k \in DOMAIN m THEN m[k] ELSE None

\* lines 38-41: tokens.iter().map(..).collect::<HashMap>(): a later pair with
\* the same id replaces an earlier one
names_of(tks) ==
    [k \in Keys |->
        LET at == {i \in 1..Len(tks) : tks[i].id = k}
        IN IF at = {} THEN None
           ELSE Some(tks[CHOOSE i \in at : \A j \in at : j <= i].name)]

\* line 42
token_ids_of(tks) == [i \in 1..Len(tks) |-> tks[i].id]

\* Variant of sub_msg: the last token of the table is left out.
sub_msg_short(tks) ==
    [assets_ids |-> [i \in 1..(Len(tks) - 1) |-> tks[i].id], type |-> "market"]

\* lines 46-49: json!({"assets_ids": token_ids, "type": "market"})
sub_msg(tks) == [assets_ids |-> token_ids_of(tks), type |-> "market"]

\* ------------------------------------------------------------------ seed_state_from_book
\* Variant of book_best_ask: the first element of asks is taken.
book_best_ask_first(msg) ==
    IF msg.asks = None THEN None
    ELSE LET arr == Unwrap(msg.asks)
         IN IF arr = <<>> THEN None
            ELSE LET l == arr[1]
                 IN IF l.price = None THEN None ELSE ParseF64(Unwrap(l.price))

\* lines 151-157: asks -> as_array -> last -> price -> as_str -> parse
book_best_ask(msg) ==
    IF msg.asks = None THEN None
    ELSE LET arr == Unwrap(msg.asks)
         IN IF arr = <<>> THEN None
            ELSE LET l == arr[Len(arr)]
                 IN IF l.price = None THEN None ELSE ParseF64(Unwrap(l.price))

\* Variant of seed_state_from_book: a book without a usable best ask removes
\* the token's entry.
seed_state_from_book_clears(msg, st) ==
    IF msg.asset_id = None THEN st
    ELSE LET best_ask == book_best_ask(msg)
         IN IF IsSome(best_ask)
            THEN Insert(st, Unwrap(msg.asset_id), Unwrap(best_ask))
            ELSE [st EXCEPT ![Unwrap(msg.asset_id)] = None]

\* Variant of seed_state_from_book: a missing asset_id defaults to "", as in
\* the update loop of print_price_change.
seed_state_from_book_no_id(msg, st) ==
    LET best_ask == book_best_ask(msg)
    IN IF IsSome(best_ask)
       THEN Insert(st, UnwrapOr(msg.asset_id, NoId), Unwrap(best_ask))
       ELSE st

\* lines 145-162
seed_state_from_book(msg, st) ==
    IF msg.asset_id = None THEN st
    ELSE LET best_ask == book_best_ask(msg)
         IN IF IsSome(best_ask)
            THEN Insert(st, Unwrap(msg.asset_id), Unwrap(best_ask))
            ELSE st

\* ------------------------------------------------------------------ print_price_change
\* lines 102-103
change_ask(change) ==
    IF change.best_ask = None THEN None ELSE ParseF64(Unwrap(change.best_ask))

\* Variant of update_state: the records are applied from the last to the
\* first.
RECURSIVE update_state_backwards(_, _)
update_state_backwards(changes, st) ==
    IF changes = <<>> THEN st
    ELSE LET change == Head(changes)
             id     == UnwrapOr(change.asset_id, NoId)
             ask    == change_ask(change)
             st1    == update_state_backwards(Tail(changes), st)
         IN IF IsSome(ask) THEN Insert(st1, id, Unwrap(ask)) ELSE st1

\* Variant of update_state: only the two records that are rendered are
\* applied.
update_state_first_two(changes, st) ==
    LET apply(change, s) ==
            IF IsSome(change_ask(change))
            THEN Insert(s, UnwrapOr(change.asset_id, NoId), Unwrap(change_ask(change)))
            ELSE s
        s1 == IF Len(changes) >= 1 THEN apply(changes[1], st) ELSE st
    IN IF Len(changes) >= 2 THEN apply(changes[2], s1) ELSE s1

\* lines 100-107: the update loop; the pattern (id, Some(ask)) binds any id,
\* the "" of a record without asset_id included
RECURSIVE update_state(_, _)
update_state(changes, st) ==
    IF changes = <<>> THEN st
    ELSE LET change == Head(changes)
             id     == UnwrapOr(change.asset_id, NoId)
             ask    == change_ask(change)
         IN update_state(Tail(changes),
                         IF IsSome(ask) THEN Insert(st, id, Unwrap(ask)) ELSE st)

\* Variant of pair_sum: an unknown ask counts as 0.
pair_sum_or_zero(ask_a, ask_b) ==
    IF ask_a = None /\ ask_b = None THEN None
    ELSE Some(AddF64(UnwrapOr(ask_a, F64(0)), UnwrapOr(ask_b, F64(0))))

\* line 126: ask_a.zip(ask_b).map(|(a, b)| a + b)
pair_sum(ask_a, ask_b) ==
    IF IsSome(ask_a) /\ IsSome(ask_b)
    THEN Some(AddF64(Unwrap(ask_a), Unwrap(ask_b)))
    ELSE None

\* lines 129-131
ask_str(o) == IF IsSome(o) THEN Fmt2(Unwrap(o)) ELSE EmDash

\* line 132
arb_flag_of(sum) ==
    IF IsSome(sum) THEN (IF LessThanThreshold(Unwrap(sum)) THEN ArbMarker ELSE "")
    ELSE ""

\* Variant of render_line: the last two records of the event are paired.
render_line_last_two(changes, nm, st) ==
    LET a      == changes[Len(changes) - 1]
        b      == changes[Len(changes)]
        id_a   == UnwrapOr(a.asset_id, NoId)
        id_b   == UnwrapOr(b.asset_id, NoId)
        size_a == UnwrapOr(a.size, "?")
        ask_a  == MapGet(st, id_a)
        ask_b  == MapGet(st, id_b)
        sum    == pair_sum(ask_a, ask_b)
    IN [side_a     |-> UnwrapOr(a.side, "?"),
        name_a     |-> UnwrapOr(MapGet(nm, id_a), "Token A"),
        ask_a_str  |-> ask_str(ask_a),
        side_b     |-> UnwrapOr(b.side, "?"),
        name_b     |-> UnwrapOr(MapGet(nm, id_b), "Token B"),
        ask_b_str  |-> ask_str(ask_b),
        sum_str    |-> ask_str(sum),
        size_label |-> IF size_a = "0" THEN "CANCEL" ELSE size_a,
        arb_flag   |-> arb_flag_of(sum)]

\* Variant of render_line: the size is taken from the second record.
render_line_size_b(changes, nm, st) ==
    LET a      == changes[1]
        b      == changes[2]
        id_a   == UnwrapOr(a.asset_id, NoId)
        id_b   == UnwrapOr(b.asset_id, NoId)
        size_b == UnwrapOr(b.size, "?")
        ask_a  == MapGet(st, id_a)
        ask_b  == MapGet(st, id_b)
        sum    == pair_sum(ask_a, ask_b)
    IN [side_a     |-> UnwrapOr(a.side, "?"),
        name_a     |-> UnwrapOr(MapGet(nm, id_a), "Token A"),
        ask_a_str  |-> ask_str(ask_a),
        side_b     |-> UnwrapOr(b.side, "?"),
        name_b     |-> UnwrapOr(MapGet(nm, id_b), "Token B"),
        ask_b_str  |-> ask_str(ask_b),
        sum_str    |-> ask_str(sum),
        size_label |-> IF size_b = "0" THEN "CANCEL" ELSE size_b,
        arb_flag   |-> arb_flag_of(sum)]

\* lines 112-136: the line printed for changes[0] and changes[1], read from
\* the state st
render_line(changes, nm, st) ==
    LET a      == changes[1]
        b      == changes[2]
        id_a   == UnwrapOr(a.asset_id, NoId)
        id_b   == UnwrapOr(b.asset_id, NoId)
        size_a == UnwrapOr(a.size, "?")
        ask_a  == MapGet(st, id_a)
        ask_b  == MapGet(st, id_b)
        sum    == pair_sum(ask_a, ask_b)
    IN [side_a     |-> UnwrapOr(a.side, "?"),
        name_a     |-> UnwrapOr(MapGet(nm, id_a), "Token A"),
        ask_a_str  |-> ask_str(ask_a),
        side_b     |-> UnwrapOr(b.side, "?"),
        name_b     |-> UnwrapOr(MapGet(nm, id_b), "Token B"),
        ask_b_str  |-> ask_str(ask_b),
        sum_str    |-> ask_str(sum),
        size_label |-> IF size_a = "0" THEN "CANCEL" ELSE size_a,
        arb_flag   |-> arb_flag_of(sum)]

\* Variant of print_price_change: the line is read from the state before the
\* update loop.
print_price_change_stale(msg, nm, st) ==
    IF msg.price_changes = None THEN [ask_state |-> st, lines |-> <<>>, logs |-> <<>>]
    ELSE LET changes == Unwrap(msg.price_changes)
             st1     == update_state(changes, st)
         IN IF Len(changes) < 2
            THEN [ask_state |-> st1, lines |-> <<>>, logs |-> <<>>]
            ELSE [ask_state |-> st1,
                  lines     |-> <<render_line(changes, nm, st)>>,
                  logs      |-> <<>>]

\* Variant of print_price_change: the length test comes before the update loop.
print_price_change_early(msg, nm, st) ==
    IF msg.price_changes = None THEN [ask_state |-> st, lines |-> <<>>, logs |-> <<>>]
    ELSE LET changes == Unwrap(msg.price_changes)
         IN IF Len(changes) < 2
            THEN [ask_state |-> st, lines |-> <<>>, logs |-> <<>>]
            ELSE LET st1 == update_state(changes, st)
                 IN [ask_state |-> st1,
                     lines     |-> <<render_line(changes, nm, st1)>>,
                     logs      |-> <<>>]

\* Variant of print_price_change: rendering stores 0 for the first paired
\* token when its ask is unknown.
print_price_change_marks(msg, nm, st) ==
    IF msg.price_changes = None THEN [ask_state |-> st, lines |-> <<>>, logs |-> <<>>]
    ELSE LET changes == Unwrap(msg.price_changes)
             st1     == update_state(changes, st)
         IN IF Len(changes) < 2
            THEN [ask_state |-> st1, lines |-> <<>>, logs |-> <<>>]
            ELSE LET id_a == UnwrapOr(changes[1].asset_id, NoId)
                 IN [ask_state |-> IF MapGet(st1, id_a) = None
                                   THEN Insert(st1, id_a, F64(0)) ELSE st1,
                     lines     |-> <<render_line(changes, nm, st1)>>,
                     logs      |-> <<>>]

\* Variant of print_price_change: a message without a price_changes array is
\* read as a book.
print_price_change_or_book(msg, nm, st) ==
    IF msg.price_changes = None
    THEN [ask_state |-> seed_state_from_book(msg, st), lines |-> <<>>, logs |-> <<>>]
    ELSE LET changes == Unwrap(msg.price_changes)
             st1     == update_state(changes, st)
         IN IF Len(changes) < 2
            THEN [ask_state |-> st1, lines |-> <<>>, logs |-> <<>>]
            ELSE [ask_state |-> st1,
                  lines     |-> <<render_line(changes, nm, st1)>>,
                  logs      |-> <<>>]

\* lines 93-137: the state after the call and what it printed
print_price_change(msg, nm, st) ==
    IF msg.price_changes = None THEN [ask_state |-> st, lines |-> <<>>, logs |-> <<>>]
    ELSE LET changes == Unwrap(msg.price_changes)
             st1     == update_state(changes, st)
         IN IF Len(changes) < 2
            THEN [ask_state |-> st1, lines |-> <<>>, logs |-> <<>>]
            ELSE [ask_state |-> st1,
                  lines     |-> <<render_line(changes, nm, st1)>>,
                  logs      |-> <<>>]

\* ------------------------------------------------------------------ handle_message
\* Variant of handle_message: a text that does not parse resets the map.
handle_message_reset(text, nm, st) ==
    IF ~text.wellformed
    THEN [ask_state |-> EmptyMap, lines |-> <<>>, logs |-> <<"[WS] Unparseable">>]
    ELSE IF text.event_type = None
    THEN [ask_state |-> st, lines |-> <<>>, logs |-> <<>>]
    ELSE IF Unwrap(text.event_type) = "price_change" THEN print_price_change(text, nm, st)
    ELSE IF Unwrap(text.event_type) = "book"
    THEN [ask_state |-> seed_state_from_book(text, st), lines |-> <<>>, logs |-> <<>>]
    ELSE [ask_state |-> st, lines |-> <<>>, logs |-> <<>>]

\* Variant of handle_message: without the "last_trade_price" arm of line 79,
\* so that the settlement notice falls to the default arm.
handle_message_no_trade_arm(text, nm, st) ==
    IF ~text.wellformed
    THEN [ask_state |-> st, lines |-> <<>>, logs |-> <<"[WS] Unparseable">>]
    ELSE IF text.event_type = None
    THEN [ask_state |-> st, lines |-> <<>>, logs |-> <<>>]
    ELSE IF Unwrap(text.event_type) = "price_change" THEN print_price_change(text, nm, st)
    ELSE IF Unwrap(text.event_type) = "book"
    THEN [ask_state |-> seed_state_from_book(text, st), lines |-> <<>>, logs |-> <<>>]
    ELSE [ask_state |-> st, lines |-> <<>>, logs |-> <<"[WS] Unhandled event_type">>]

\* Variant of handle_message: a text without event_type is taken by its
\* shape, as a book when it carries asks.
handle_message_by_shape(text, nm, st) ==
    IF ~text.wellformed
    THEN [ask_state |-> st, lines |-> <<>>, logs |-> <<"[WS] Unparseable">>]
    ELSE IF text.event_type = None
    THEN [ask_state |-> seed_state_from_book(text, st), lines |-> <<>>, logs |-> <<>>]
    ELSE IF Unwrap(text.event_type) = "price_change" THEN print_price_change(text, nm, st)
    ELSE IF Unwrap(text.event_type) = "book"
    THEN [ask_state |-> seed_state_from_book(text, st), lines |-> <<>>, logs |-> <<>>]
    ELSE IF Unwrap(text.event_type) = "last_trade_price"
    THEN [ask_state |-> st, lines |-> <<>>, logs |-> <<>>]
    ELSE [ask_state |-> st, lines |-> <<>>, logs |-> <<"[WS] Unhandled event_type">>]

\* lines 71-84. A text is [wellformed, event_type, asset_id, asks,
\* price_changes]: serde_json::from_str fails exactly on the texts that are
\* not well-formed JSON.
handle_message(text, nm, st) ==
    IF ~text.wellformed
    THEN [ask_state |-> st, lines |-> <<>>, logs |-> <<"[WS] Unparseable">>]
    ELSE IF text.event_type = None
    THEN [ask_state |-> st, lines |-> <<>>, logs |-> <<>>]
    ELSE IF Unwrap(text.event_type) = "price_change" THEN print_price_change(text, nm, st)
    ELSE IF Unwrap(text.event_type) = "book"
    THEN [ask_state |-> seed_state_from_book(text, st), lines |-> <<>>, logs |-> <<>>]
    ELSE IF Unwrap(text.event_type) = "last_trade_price"
    THEN [ask_state |-> st, lines |-> <<>>, logs |-> <<>>]
    ELSE [ask_state |-> st, lines |-> <<>>, logs |-> <<"[WS] Unhandled event_type">>]

\* ------------------------------------------------------------------ the feed
\* Decimal texts and one text that no f64 parser accepts.
T052 == <<"0", ".", "5", "2">>

T044 == <<"0", ".", "4", "4">>

TBad == <<"a", "b", "c">>

T055 == <<"0", ".", "5", "5">>

T048 == <<"0", ".", "4", "8">>

T046 == <<"0", ".", "4", "6">>

T05 == <<"0", ".", "5">>

TNaN == <<"N", "a", "N">>

JsonText(et, id, asks, pcs) ==
    [wellformed |-> TRUE, event_type |-> et, asset_id |-> id, asks |-> asks,
     price_changes |-> pcs]

\* A text frame that is not JSON (a truncated object, say).
Unparseable ==
    [wellformed |-> FALSE, event_type |-> None, asset_id |-> None, asks |-> None,
     price_changes |-> None]

OptionOf(S) == {None} \cup {Some(x) : x \in S}

Change(id, ask, side, size) ==
    [asset_id |-> id, best_ask |-> ask, side |-> side, size |-> size]

PriceChangeText(pcs) == JsonText(Some("price_change"), None, None, pcs)

Level(price) == [price |-> price]

BookText(id, asks) == JsonText(Some("book"), id, asks, None)

\* The feed of the supervisor's connections. Records: with and without an id,
\* with a valid, an unparseable and no best_ask.
FeedIds == {None, Some("t1"), Some("t2")}

FeedChanges ==
    {Change(id, ask, Some("BUY"), Some("5")) :
        id \in FeedIds, ask \in OptionOf({T052, T044})}
    \cup {Change(Some("t1"), Some(TBad), Some("SELL"), Some("0"))}

\* Two-record events pair a record of t1 (or one without id) with a record
\* of t2 (or one without id).
FeedFirst == {c \in FeedChanges : c.asset_id # Some("t2")}

FeedSecond == {c \in FeedChanges : c.asset_id # Some("t1") /\ c.best_ask # Some(T052)}

FeedPriceChanges ==
    {PriceChangeText(None), PriceChangeText(Some(<<>>))}
    \cup {PriceChangeText(Some(<<c>>)) : c \in FeedChanges}
    \cup {PriceChangeText(Some(<<a, b>>)) : a \in FeedFirst, b \in FeedSecond}

\* asks arrays: absent, empty, one level, two levels in both orders, a last
\* level whose price is unparseable or missing after a valid one
FeedAskArrays ==
    {None, Some(<<>>), Some(<<Level(Some(T052))>>),
     Some(<<Level(Some(T052)), Level(Some(T044))>>),
     Some(<<Level(Some(T044)), Level(Some(T052))>>),
     Some(<<Level(Some(T052)), Level(Some(TBad))>>),
     Some(<<Level(Some(T044)), Level(None)>>)}

FeedBooks == {BookText(id, asks) : id \in FeedIds, asks \in FeedAskArrays}

\* the subscription ack: an object without event_type
Ack == JsonText(None, None, None, None)

\* A text of event type et that carries the fields of a book and of a
\* price_change alike.
BothShapes(et) ==
    JsonText(et, Some("t2"), Some(<<Level(Some(T044))>>),
             Some(<<Change(Some("t1"), Some(T044), Some("BUY"), Some("5")),
                    Change(Some("t2"), Some(T052), Some("SELL"), Some("5"))>>))

\* no event_type, a settlement notice, an event kind ws.rs does not know, an
\* empty event_type
OtherEventTypes ==
    {None, Some("last_trade_price"), Some("tick_size_change"), Some("")}

OtherTexts == {Unparseable, Ack} \cup {BothShapes(et) : et \in OtherEventTypes}

FeedTexts == FeedPriceChanges \cup FeedBooks \cup OtherTexts

\* The feed of the rendering runs: books that seed t1 and t2, then one
\* two-record price_change whose records vary in every field.
SeedBooks ==
    {BookText(Some("t1"), Some(<<Level(Some(p))>>)) : p \in {T052, T055}}
    \cup {BookText(Some("t2"), Some(<<Level(Some(p))>>)) : p \in {T044, T048, T046}}

RenderIds == {None, Some("t1"), Some("t2"), Some("t3")}

RenderAsks == OptionOf({T046, T05, TNaN, TBad})

RenderFirst ==
    [asset_id : RenderIds, best_ask : RenderAsks,
     side : {None, Some("BUY")}, size : {None, Some("0"), Some("5")}]

RenderSecond ==
    [asset_id : RenderIds, best_ask : RenderAsks,
     side : {Some("SELL")}, size : {Some("0"), Some("7")}]

RenderTexts ==
    {PriceChangeText(Some(<<a, b>>)) : a \in RenderFirst, b \in RenderSecond}

\* Events of nought to three records: each record with or without an id, with
\* a valid, an unparseable or no best_ask.
EventChanges ==
    {Change(id, ask, Some("BUY"), Some("5")) :
        id \in FeedIds, ask \in OptionOf({T046, T05, TBad})}

EventSeqs ==
    {<<>>}
    \cup {<<a>> : a \in EventChanges}
    \cup {<<a, b>> : a \in EventChanges, b \in EventChanges}
    \cup {<<a, b, c>> : a \in EventChanges, b \in EventChanges, c \in EventChanges}

EventTexts == {PriceChangeText(Some(cs)) : cs \in EventSeqs}

\* Book messages of the seeder's cases: the asks arrays of the feed and one
\* whose earlier level is unparseable and whose last level is valid.
BookAskArrays ==
    FeedAskArrays \cup {Some(<<Level(Some(TBad)), Level(Some(T046))>>)}

BookTexts == {BookText(id, asks) : id \in RenderIds, asks \in BookAskArrays}

\* A price_change text without a price_changes array; it carries the fields
\* of a book.
NoArrayText == JsonText(Some("price_change"), Some("t1"), Some(<<Level(Some(T044))>>), None)

\* A short feed for the lifecycle of the supervisor: a text that is not JSON,
\* the subscription ack, a price_change without array, a book and a
\* two-record price_change.
LifeTexts ==
    {Unparseable, Ack, NoArrayText,
     BookText(Some("t1"), Some(<<Level(Some(T052))>>)),
     PriceChangeText(Some(<<Change(Some("t1"), Some(T044), Some("BUY"), Some("5")),
                            Change(Some("t2"), Some(T052), Some("SELL"), Some("0"))>>))}

\* tungstenite::Message
TextFrame(text) == [kind |-> "Text", text |-> Some(text), data |-> None]

PingFrame(data) == [kind |-> "Ping", text |-> None, data |-> Some(data)]

PongFrame(data) == [kind |-> "Pong", text |-> None, data |-> Some(data)]

CloseFrame == [kind |-> "Close", text |-> None, data |-> None]

BinaryFrame == [kind |-> "Binary", text |-> None, data |-> None]

NoFrame == [kind |-> "none", text |-> None, data |-> None]

PingPayloads == {"", "k1"}

\* frames of the `_ => {}` arm of line 63
IgnoredFrames == {BinaryFrame} \cup {PongFrame(d) : d \in PingPayloads}

\* Startup tables: the empty one is legal.
Token(id, name) == [id |-> id, name |-> name]

TokenTables == {<<>>, <<Token("t1", "Fuego"), Token("t2", "AB3")>>}

\* ------------------------------------------------------------------ history
\* The valid ask a text carries for token t, if any: a book's best (last) ask
\* when the book is for t, the last record of a price_change that names t and
\* has a parseable best_ask.
CarriedAsk(text, t) ==
    IF ~text.wellformed \/ text.event_type = None THEN None
    ELSE IF Unwrap(text.event_type) = "book" THEN
        IF text.asset_id = Some(t) /\ IsSome(text.asks) /\ Unwrap(text.asks) # <<>>
        THEN LET arr == Unwrap(text.asks)
                 p   == arr[Len(arr)].price
             IN IF IsSome(p) THEN ParseF64(Unwrap(p)) ELSE None
        ELSE None
    ELSE IF Unwrap(text.event_type) = "price_change" /\ IsSome(text.price_changes) THEN
        LET cs == Unwrap(text.price_changes)
            at == {i \in 1..Len(cs) :
                      /\ cs[i].asset_id = Some(t)
                      /\ IsSome(cs[i].best_ask)
                      /\ IsSome(ParseF64(Unwrap(cs[i].best_ask)))}
        IN IF at = {} THEN None
           ELSE ParseF64(Unwrap(cs[CHOOSE i \in at : \A j \in at : j <= i].best_ask))
    ELSE None

Received(text, last) ==
    [t \in TokenIds |->
        LET c == CarriedAsk(text, t) IN IF IsSome(c) THEN c ELSE last[t]]

NothingReceived == [t \in TokenIds |-> None]

\* ------------------------------------------------------------------ run / connect_and_stream
\* Variant of after_attempt: an Err makes run return.
after_attempt_returns(res) == IF res = "err" THEN "returned" ELSE "sleeping"

\* lines 23-28: both arms of the match fall through to the sleep
after_attempt(res) == "sleeping"

\* line 28
RECONNECT_SECS == 5

\* Variant of sleep_secs: a stream that ended cleanly is reopened at once.
sleep_secs_errors_only(res) == IF res = "ok" THEN 0 ELSE RECONNECT_SECS

\* line 28: the sleep follows the match of lines 23-26 on both arms
sleep_secs(res) == RECONNECT_SECS

\* Variant of sockets_after_return: the socket outlives the attempt.
sockets_kept(n) == n

\* line 34: ws is a local of connect_and_stream, dropped when it returns
sockets_after_return(n) == 0

\* Variant of new_ask_state: the map of the previous connection is kept.
kept_ask_state == ask_state

\* line 56
new_ask_state == EmptyMap

\* Variant of pong_for: the pong carries no payload.
pong_empty(data) == PongFrame("")

\* line 61
pong_for(data) == PongFrame(data)

Init ==
    /\ tokens \in TokenTables
    /\ pc = "connecting"
    /\ result = "none"
    /\ ask_state = EmptyMap
    /\ nsubs = 0
    /\ sub_sent = None
    /\ nframes = 0
    /\ lastFrame = NoFrame
    /\ outbox = <<>>
    /\ lines = <<>>
    /\ logs = <<"[WS] Connecting">>
    /\ lastRecv = NothingReceived
    /\ prior_asks = FALSE
    /\ io = "none"
    /\ wait = 0
    /\ nconns = 0
    /\ text_store = EmptyMap

\* connect_and_stream returns res to run, which reports it and goes to sleep
\* (lines 24-28); the socket and the map are dropped. ask_state keeps the
\* content of the dropped map until line 56 creates the next one, so that a
\* map carried over a reconnect would show.
Return(res, frame, sent) ==
    /\ result' = res
    /\ pc' = after_attempt(res)
    /\ lastFrame' = frame
    /\ outbox' = sent
    /\ lines' = <<>>
    /\ logs' = (IF frame.kind = "Close" THEN <<"[WS] Server closed connection">> ELSE <<>>)
                \o <<IF res = "ok" THEN "[WS] Stream ended" ELSE "[WS] Connection error">>
    /\ nframes' = 0
    /\ nsubs' = 0
    /\ wait' = sleep_secs(res)
    /\ UNCHANGED text_store
    /\ nconns' = sockets_after_return(nconns)
    /\ UNCHANGED <<tokens, ask_state, sub_sent, lastRecv, prior_asks>>

\* line 34 succeeds; lines 38-44
ConnectOk ==
    /\ pc = "connecting"
    /\ pc' = "connected"
    /\ io' = "ok"
    /\ nconns' = nconns + 1
    /\ UNCHANGED wait
    /\ UNCHANGED text_store
    /\ nsubs' = 0
    /\ nframes' = 0
    /\ lastFrame' = NoFrame
    /\ outbox' = <<>>
    /\ lines' = <<>>
    /\ logs' = <<"[WS] Connected">>
    /\ UNCHANGED <<tokens, result, ask_state, sub_sent, lastRecv, prior_asks>>

\* line 34 fails: `?`
ConnectFail ==
    /\ pc = "connecting"
    /\ io' = "connect_err"
    /\ Return("err", NoFrame, <<>>)

\* Variant of SubscribeOk: with nothing to subscribe to, no subscription is
\* sent and the loop is not entered.
SubscribeOkNonEmpty ==
    /\ pc = "connected"
    /\ tokens # <<>>
    /\ pc' = "streaming"
    /\ io' = "ok"
    /\ outbox' = <<sub_msg(tokens)>>
    /\ nsubs' = nsubs + 1
    /\ sub_sent' = Some(sub_msg(tokens))
    /\ ask_state' = new_ask_state
    /\ lastRecv' = NothingReceived
    /\ prior_asks' = (IsSome(ask_state["t1"]) /\ IsSome(ask_state["t2"]))
    /\ lines' = <<>>
    /\ logs' = <<"[WS] Subscribed">>
    /\ UNCHANGED <<tokens, result, nframes, lastFrame, wait, nconns>>
    /\ text_store' = EmptyMap

\* line 50 succeeds; lines 51-56
SubscribeOk ==
    /\ pc = "connected"
    /\ pc' = "streaming"
    /\ io' = "ok"
    /\ UNCHANGED <<wait, nconns>>
    /\ text_store' = EmptyMap
    /\ outbox' = <<sub_msg(tokens)>>
    /\ nsubs' = nsubs + 1
    /\ sub_sent' = Some(sub_msg(tokens))
    /\ ask_state' = new_ask_state
    /\ lastRecv' = NothingReceived
    /\ prior_asks' = (IsSome(ask_state["t1"]) /\ IsSome(ask_state["t2"]))
    /\ lines' = <<>>
    /\ logs' = <<"[WS] Subscribed">>
    /\ UNCHANGED <<tokens, result, nframes, lastFrame>>

\* Variant of SubscribeFail: the failed send is not propagated and the receive
\* loop is entered.
SubscribeFailIgnored ==
    /\ pc = "connected"
    /\ pc' = "streaming"
    /\ io' = "subscribe_err"
    /\ outbox' = <<>>
    /\ ask_state' = new_ask_state
    /\ lastRecv' = NothingReceived
    /\ lines' = <<>>
    /\ logs' = <<"[WS] Subscribed">>
    /\ UNCHANGED <<tokens, result, nsubs, sub_sent, nframes, lastFrame, prior_asks,
                   wait, nconns>>
    /\ text_store' = EmptyMap

\* line 50 fails: `?`
SubscribeFail ==
    /\ pc = "connected"
    /\ io' = "subscribe_err"
    /\ Return("err", NoFrame, <<>>)

\* line 58: ws.next() yields None
StreamEnd ==
    /\ pc = "streaming"
    /\ io' = "eof"
    /\ Return("ok", NoFrame, <<>>)

\* Variant of ReadErr: the failed read is skipped and the loop goes on.
ReadErrSkipped ==
    /\ pc = "streaming"
    /\ io' = "read_err"
    /\ UNCHANGED <<wait, nconns>>
    /\ UNCHANGED text_store
    /\ lines' = <<>>
    /\ logs' = <<>>
    /\ outbox' = <<>>
    /\ UNCHANGED <<tokens, pc, result, ask_state, nsubs, sub_sent, nframes, lastFrame,
                   lastRecv, prior_asks>>

\* line 59: ws.next() yields Some(Err(_)): `msg?`
ReadErr ==
    /\ pc = "streaming"
    /\ io' = "read_err"
    /\ Return("err", NoFrame, <<>>)

\* line 60
RecvText(texts) ==
    \E text \in texts :
        /\ pc = "streaming"
        /\ nframes < MaxFrames
        /\ \E r \in {handle_message(text, names_of(tokens), ask_state)} :
              /\ ask_state' = r.ask_state
              /\ lines' = r.lines
              /\ logs' = r.logs
              \* the same function of the same arguments when the maps agree
              /\ text_store' =
                    IF text_store = ask_state THEN r.ask_state
                    ELSE handle_message(text, names_of(tokens), text_store).ask_state
        /\ lastRecv' = Received(text, lastRecv)
        /\ lastFrame' = TextFrame(text)
        /\ nframes' = nframes + 1
        /\ outbox' = <<>>
        /\ io' = "ok"
        /\ UNCHANGED <<wait, nconns>>
        /\ UNCHANGED <<tokens, pc, result, nsubs, sub_sent, prior_asks>>

\* Variant of RecvPing: the pong is left to be sent later and the loop reads
\* on.
RecvPingDeferred ==
    \E data \in PingPayloads :
        /\ pc = "streaming"
        /\ nframes < MaxFrames
        /\ outbox' = <<>>
        /\ lastFrame' = PingFrame(data)
        /\ nframes' = nframes + 1
        /\ lines' = <<>>
        /\ logs' = <<>>
        /\ io' = "ok"
        /\ UNCHANGED <<tokens, pc, result, ask_state, nsubs, sub_sent, lastRecv,
                       prior_asks, wait, nconns>>
        /\ UNCHANGED text_store

\* line 61, the send succeeds
RecvPing ==
    \E data \in PingPayloads :
        /\ pc = "streaming"
        /\ nframes < MaxFrames
        /\ outbox' = <<pong_for(data)>>
        /\ lastFrame' = PingFrame(data)
        /\ nframes' = nframes + 1
        /\ lines' = <<>>
        /\ logs' = <<>>
        /\ io' = "ok"
        /\ UNCHANGED <<wait, nconns>>
        /\ UNCHANGED text_store
        /\ UNCHANGED <<tokens, pc, result, ask_state, nsubs, sub_sent, lastRecv,
                       prior_asks>>

\* line 61, the send fails: `?`. The pong was handed to the socket.
RecvPingSendFail ==
    \E data \in PingPayloads :
        /\ pc = "streaming"
        /\ nframes < MaxFrames
        /\ io' = "pong_err"
        /\ Return("err", PingFrame(data), <<pong_for(data)>>)

\* Variant of RecvClose: the close frame is logged and the loop goes on.
RecvCloseNoBreak ==
    /\ pc = "streaming"
    /\ nframes < MaxFrames
    /\ io' = "ok"
    /\ UNCHANGED <<wait, nconns>>
    /\ UNCHANGED text_store
    /\ lastFrame' = CloseFrame
    /\ nframes' = nframes + 1
    /\ outbox' = <<>>
    /\ lines' = <<>>
    /\ logs' = <<"[WS] Server closed connection">>
    /\ UNCHANGED <<tokens, pc, result, ask_state, nsubs, sub_sent, lastRecv, prior_asks>>

\* line 62
RecvClose ==
    /\ pc = "streaming"
    /\ nframes < MaxFrames
    /\ io' = "ok"
    /\ Return("ok", CloseFrame, <<>>)

\* Variant of RecvIgnored: a frame of another kind makes the connection start
\* over with an empty map.
RecvIgnoredResets ==
    \E f \in IgnoredFrames :
        /\ pc = "streaming"
        /\ nframes < MaxFrames
        /\ lastFrame' = f
        /\ nframes' = nframes + 1
        /\ ask_state' = EmptyMap
        /\ outbox' = <<>>
        /\ lines' = <<>>
        /\ logs' = <<>>
        /\ io' = "ok"
        /\ UNCHANGED <<tokens, pc, result, nsubs, sub_sent, lastRecv, prior_asks,
                       wait, nconns, text_store>>

\* Variant of RecvIgnored: a frame of another kind ends the loop like a close
\* frame.
RecvIgnoredEnds ==
    \E f \in IgnoredFrames :
        /\ pc = "streaming"
        /\ nframes < MaxFrames
        /\ io' = "ok"
        /\ Return("ok", f, <<>>)

\* line 63
RecvIgnored ==
    \E f \in IgnoredFrames :
        /\ pc = "streaming"
        /\ nframes < MaxFrames
        /\ lastFrame' = f
        /\ nframes' = nframes + 1
        /\ outbox' = <<>>
        /\ lines' = <<>>
        /\ logs' = <<>>
        /\ io' = "ok"
        /\ UNCHANGED <<wait, nconns>>
        /\ UNCHANGED text_store
        /\ UNCHANGED <<tokens, pc, result, ask_state, nsubs, sub_sent, lastRecv,
                       prior_asks>>

\* line 28 completes; line 21
SleepDone ==
    /\ pc = "sleeping"
    /\ pc' = "connecting"
    /\ result' = "none"
    /\ io' = "none"
    /\ wait' = 0
    /\ UNCHANGED nconns
    /\ UNCHANGED text_store
    /\ lastFrame' = NoFrame
    /\ outbox' = <<>>
    /\ lines' = <<>>
    /\ logs' = <<"[WS] Connecting">>
    /\ UNCHANGED <<tokens, ask_state, nsubs, sub_sent, nframes, lastRecv, prior_asks>>

RecvFeedText == RecvText(FeedTexts)

Next ==
    \/ ConnectOk
    \/ ConnectFail
    \/ SubscribeOk
    \/ SubscribeFail
    \/ RecvFeedText
    \/ RecvPing
    \/ RecvPingSendFail
    \/ RecvClose
    \/ RecvIgnored
    \/ StreamEnd
    \/ ReadErr
    \/ SleepDone

Spec == Init /\ [][Next]_vars

TypeOK ==
    /\ pc \in {"connecting", "connected", "streaming", "sleeping"}
    /\ result \in {"none", "ok", "err"}
    /\ nframes \in 0..MaxFrames
    /\ io \in {"none", "ok", "eof", "connect_err", "subscribe_err", "read_err", "pong_err"}
    /\ wait \in {0, RECONNECT_SECS}
    /\ nconns \in 0..1

\* The sleep of line 28 always completes.
LiveSpec == Spec /\ WF_vars(SleepDone)

\* Rendering runs: one connection that is seeded by books and then receives,
\* as the last frame the bound allows, one two-record price_change.
RecvSeedBook == nframes < MaxFrames - 1 /\ RecvText(SeedBooks)

RecvRenderText == nframes = MaxFrames - 1 /\ RecvText(RenderTexts)

RenderNext ==
    \/ ConnectOk
    \/ SubscribeOk
    \/ RecvSeedBook
    \/ RecvRenderText

RenderSpec == Init /\ [][RenderNext]_vars

\* Connections on which the server sends its last text twice: book frames
\* seed the store, then a book or a price_change of nought to three records
\* arrives, and then the same text again.
RepeatTexts == EventTexts \cup BookTexts

RecvEarlySeedBook == nframes < MaxFrames - 2 /\ RecvText(SeedBooks)

RecvFirstText == nframes = MaxFrames - 2 /\ RecvText(RepeatTexts)

RecvSameText ==
    /\ nframes = MaxFrames - 1
    /\ lastFrame.kind = "Text"
    /\ RecvText({Unwrap(lastFrame.text)})

RepeatNext ==
    \/ ConnectOk
    \/ SubscribeOk
    \/ RecvEarlySeedBook
    \/ RecvFirstText
    \/ RecvSameText

RepeatSpec == Init /\ [][RepeatNext]_vars

\* The supervisor with the short feed.
RecvLifeText == RecvText(LifeTexts)

LifeNext ==
    \/ ConnectOk
    \/ ConnectFail
    \/ SubscribeOk
    \/ SubscribeFail
    \/ RecvLifeText
    \/ RecvPing
    \/ RecvPingSendFail
    \/ RecvClose
    \/ RecvIgnored
    \/ StreamEnd
    \/ ReadErr
    \/ SleepDone

LifeSpec == Init /\ [][LifeNext]_vars /\ WF_vars(SleepDone)

\* Connections whose last frame is a price_change of nought to three records,
\* after book frames have seeded the store.
RecvEventText == nframes = MaxFrames - 1 /\ RecvText(EventTexts)

EventNext ==
    \/ ConnectOk
    \/ SubscribeOk
    \/ RecvSeedBook
    \/ RecvEventText

EventSpec == Init /\ [][EventNext]_vars

\* Connections whose last frame is a book message, after earlier book frames
\* have seeded the store.
RecvBookText == nframes = MaxFrames - 1 /\ RecvText(BookTexts)

BookNext ==
    \/ ConnectOk
    \/ SubscribeOk
    \/ RecvSeedBook
    \/ RecvBookText

BookSpec == Init /\ [][BookNext]_vars

\* ------------------------------------------------------------------ properties
IsPriceChange(f) ==
    /\ f.kind = "Text"
    /\ Unwrap(f.text).wellformed
    /\ Unwrap(f.text).event_type = Some("price_change")
    /\ IsSome(Unwrap(f.text).price_changes)

ChangesOf(f) == Unwrap(Unwrap(f.text).price_changes)

IsBook(f) ==
    /\ f.kind = "Text"
    /\ Unwrap(f.text).wellformed
    /\ Unwrap(f.text).event_type = Some("book")

\* a text that is routed neither to the Reconciler nor to the Seeder
NotRouted(text) ==
    \/ ~text.wellformed
    \/ text.event_type \notin {Some("price_change"), Some("book")}

\* C1: the supervisor has no terminal state: whenever a connection attempt has
\* ended, with Ok or with Err, a new attempt is eventually started.
C1_AlwaysReconnects == (result # "none") ~> (pc = "connecting" /\ result = "none")

C1_Witness == pc = "sleeping" /\ result = "err" /\ lastFrame.kind = "Ping"

\* C2: the store is empty when a connection enters the receive loop, and a
\* two-record price_change without any valid best_ask that is the first frame
\* of a connection renders placeholder asks, whatever earlier connections knew.
C2_StoreEmptyOnEntry ==
    /\ (pc = "streaming" /\ nframes = 0) => ask_state = EmptyMap
    /\ (/\ pc = "streaming"
        /\ nframes = 1
        /\ IsPriceChange(lastFrame)
        /\ Len(ChangesOf(lastFrame)) = 2
        /\ \A i \in 1..2 : change_ask(ChangesOf(lastFrame)[i]) = None)
       => /\ Len(lines) = 1
          /\ lines[1].ask_a_str = EmDash
          /\ lines[1].ask_b_str = EmDash

C2_Witness ==
    /\ pc = "streaming"
    /\ nframes = 1
    /\ prior_asks
    /\ IsPriceChange(lastFrame)
    /\ Len(ChangesOf(lastFrame)) = 2
    /\ ChangesOf(lastFrame)[1].asset_id = Some("t1")
    /\ ChangesOf(lastFrame)[2].asset_id = Some("t2")
    /\ \A i \in 1..2 : ChangesOf(lastFrame)[i].best_ask = None
    /\ Len(lines) = 1
    /\ lines[1].ask_a_str = EmDash
    /\ lines[1].ask_b_str = EmDash

ExpectedSubscription ==
    [assets_ids |-> [i \in 1..Len(tokens) |-> tokens[i].id], type |-> "market"]

\* C3: a connection sends exactly one subscription, after the transport is
\* open and before any frame is read; it lists every startup token id with
\* type "market", and it is the same message on every reconnect.
C3_OneSubscription ==
    /\ [](/\ pc = "connecting" => nsubs = 0
          /\ pc = "connected" => (nsubs = 0 /\ nframes = 0)
          /\ pc = "streaming" => (nsubs = 1 /\ sub_sent = Some(ExpectedSubscription))
          /\ nframes > 0 => nsubs = 1
          /\ \A i \in 1..Len(outbox) :
                "assets_ids" \in DOMAIN outbox[i]
                    => (pc = "streaming" /\ nframes = 0 /\ Len(outbox) = 1
                        /\ outbox[i] = ExpectedSubscription))
    /\ [][sub_sent # None => sub_sent' = sub_sent]_vars

C3_Witness ==
    /\ pc = "streaming"
    /\ prior_asks
    /\ nframes > 0
    /\ nsubs = 1
    /\ Len(tokens) = 2
    /\ Unwrap(sub_sent).assets_ids = <<"t1", "t2">>

\* C4: the step that reads a ping sends exactly one pong, with the ping's
\* payload, before the next frame is read; no other step sends a pong.
C4_PingAnswered ==
    /\ lastFrame.kind = "Ping" => outbox = <<PongFrame(Unwrap(lastFrame.data))>>
    /\ \A i \in 1..Len(outbox) :
          ("kind" \in DOMAIN outbox[i] /\ outbox[i].kind = "Pong")
              => lastFrame.kind = "Ping"

C4_Witness ==
    /\ pc = "streaming"
    /\ lastFrame = PingFrame("k1")
    /\ outbox = <<PongFrame("k1")>>

\* C5: a step that reads a text frame stays in the receive loop, whatever the
\* text; a text that is not routed to the Reconciler or the Seeder (not JSON,
\* unknown or missing event_type) leaves the store as it was and prints no
\* line; and after it the loop still accepts the next frame.
C5_TextNeverStops ==
    /\ [][(pc = "streaming" /\ lastFrame'.kind = "Text")
            => /\ pc' = "streaming"
               /\ result' = "none"
               /\ nframes' = nframes + 1
               /\ NotRouted(Unwrap(lastFrame'.text))
                    => (ask_state' = ask_state /\ lines' = <<>>)]_vars
    /\ [](/\ pc = "streaming"
          /\ lastFrame.kind = "Text"
          /\ NotRouted(Unwrap(lastFrame.text))
          /\ nframes < MaxFrames
          => ENABLED RecvFeedText)

C5_Witness ==
    /\ pc = "streaming"
    /\ lastFrame = TextFrame(Unparseable)
    /\ nframes = 3
    /\ ask_state["t1"] = Some(F64(52))
    /\ ask_state["t2"] = Some(F64(44))

\* C6: in a rendered line the ask shown for a paired token is the most recent
\* valid ask received for it in this connection, book seeds and the records
\* of the rendered event included.
C6_ShownAskIsLatest ==
    (pc = "streaming" /\ IsPriceChange(lastFrame) /\ Len(ChangesOf(lastFrame)) >= 2)
    => /\ Len(lines) = 1
       /\ \A t \in TokenIds :
            /\ ChangesOf(lastFrame)[1].asset_id = Some(t)
                => lines[1].ask_a_str = ask_str(lastRecv[t])
            /\ ChangesOf(lastFrame)[2].asset_id = Some(t)
                => lines[1].ask_b_str = ask_str(lastRecv[t])

\* Only the first record carries a best_ask; the other token's ask comes from
\* an earlier frame.
C6_Witness ==
    /\ pc = "streaming"
    /\ IsPriceChange(lastFrame)
    /\ ChangesOf(lastFrame) = <<Change(Some("t1"), Some(T044), Some("BUY"), Some("5")),
                                Change(Some("t2"), None, Some("BUY"), Some("5"))>>
    /\ Len(lines) = 1
    /\ lines[1].ask_a_str = T044
    /\ lines[1].ask_b_str = T052

\* C7: within a connection, for every token id the store holds the ask
\* carried by the latest processed message that carried a valid ask for it,
\* and holds no entry when no such message has been processed.
C7_LastReceivedWins ==
    pc = "streaming" => \A t \in TokenIds : ask_state[t] = lastRecv[t]

\* t1 holds 0.52 from a book whose earlier level is 0.44, t2 holds 0.44, and
\* t3, which no message named, has no entry.
C7_Witness ==
    /\ pc = "streaming"
    /\ nframes = 3
    /\ IsBook(lastFrame)
    /\ Unwrap(lastFrame.text).asset_id = Some("t1")
    /\ Unwrap(lastFrame.text).asks = Some(<<Level(Some(T044)), Level(Some(T052))>>)
    /\ ask_state["t1"] = Some(F64(52))
    /\ ask_state["t2"] = Some(F64(44))
    /\ ask_state["t3"] = None

\* C8: a price_change with zero or one record prints no line, and the valid
\* best_ask of its record is in the store afterwards.
C8_FewerThanTwoRecords ==
    (pc = "streaming" /\ IsPriceChange(lastFrame) /\ Len(ChangesOf(lastFrame)) < 2)
    => /\ lines = <<>>
       /\ \A i \in 1..Len(ChangesOf(lastFrame)) :
            LET c == ChangesOf(lastFrame)[i]
            IN (IsSome(c.asset_id) /\ IsSome(change_ask(c)))
                => ask_state[Unwrap(c.asset_id)] = change_ask(c)

C8_Witness ==
    /\ pc = "streaming"
    /\ nframes = 1
    /\ IsPriceChange(lastFrame)
    /\ ChangesOf(lastFrame) = <<Change(Some("t2"), Some(T044), Some("BUY"), Some("5"))>>
    /\ lines = <<>>
    /\ ask_state["t2"] = Some(F64(44))

\* the store keys line 124 and line 125 read for the rendered line
IdA(f) == UnwrapOr(ChangesOf(f)[1].asset_id, NoId)

IdB(f) == UnwrapOr(ChangesOf(f)[2].asset_id, NoId)

Rendered == pc = "streaming" /\ IsPriceChange(lastFrame) /\ Len(ChangesOf(lastFrame)) >= 2

\* C9: when both paired asks are known, the rendered sum is their arithmetic
\* sum to two decimals and the arbitrage marker is present exactly when the
\* sum is strictly below 0.98: 0.52 + 0.44 is flagged, 0.55 + 0.48 is not,
\* a sum of exactly 0.98 is not.
C9_SumAndMarker ==
    (Rendered /\ IsSome(ask_state[IdA(lastFrame)]) /\ IsSome(ask_state[IdB(lastFrame)]))
    => LET va == Unwrap(ask_state[IdA(lastFrame)])
           vb == Unwrap(ask_state[IdB(lastFrame)])
           l  == lines[1]
       IN /\ Len(lines) = 1
          /\ l.arb_flag \in {ArbMarker, ""}
          /\ (va.nan \/ vb.nan) => (l.sum_str = TNaN /\ l.arb_flag = "")
          /\ (~va.nan /\ ~vb.nan)
                => /\ l.sum_str = Fmt2(F64(va.c + vb.c))
                   /\ l.arb_flag = ArbMarker <=> va.c + vb.c < 98
          /\ (va = F64(52) /\ vb = F64(44))
                => (l.sum_str = <<"0", ".", "9", "6">> /\ l.arb_flag = ArbMarker)
          /\ (va = F64(55) /\ vb = F64(48))
                => (l.sum_str = <<"1", ".", "0", "3">> /\ l.arb_flag = "")
          /\ (~va.nan /\ ~vb.nan /\ va.c + vb.c = 98)
                => (l.sum_str = <<"0", ".", "9", "8">> /\ l.arb_flag = "")

\* 0.52 seeded for t1 and 0.46 brought by the event for t2: exactly 0.98.
C9_Witness ==
    /\ Rendered
    /\ IdA(lastFrame) = "t1"
    /\ IdB(lastFrame) = "t2"
    /\ ask_state["t1"] = Some(F64(52))
    /\ ask_state["t2"] = Some(F64(46))
    /\ ChangesOf(lastFrame)[2].best_ask = Some(T046)
    /\ lines[1].sum_str = <<"0", ".", "9", "8">>
    /\ lines[1].arb_flag = ""

\* C10: when the ask of either paired token is unknown, the sum is the
\* placeholder and there is no arbitrage marker, whatever the known ask is.
C10_UnknownAskNoSum ==
    (Rendered /\ (ask_state[IdA(lastFrame)] = None \/ ask_state[IdB(lastFrame)] = None))
    => /\ Len(lines) = 1
       /\ lines[1].sum_str = EmDash
       /\ lines[1].arb_flag = ""

\* t1 is known at 0.52, which alone is below 0.98; t3 is unknown.
C10_Witness ==
    /\ Rendered
    /\ IdA(lastFrame) = "t1"
    /\ IdB(lastFrame) = "t3"
    /\ ask_state["t1"] = Some(F64(52))
    /\ ask_state["t3"] = None
    /\ lines[1].ask_a_str = T052
    /\ lines[1].ask_b_str = EmDash
    /\ lines[1].sum_str = EmDash
    /\ lines[1].arb_flag = ""

\* C11: the size field of a rendered line is "CANCEL" exactly when the first
\* record's size is the string "0", and otherwise the first record's size as
\* it came; the second record's size plays no part.
C11_SizeField ==
    Rendered
    => LET a == ChangesOf(lastFrame)[1]
       IN /\ Len(lines) = 1
          /\ lines[1].size_label = "CANCEL" <=> a.size = Some("0")
          /\ (IsSome(a.size) /\ a.size # Some("0")) => lines[1].size_label = Unwrap(a.size)

\* The first record's size is "5" and the second record's size is "0".
C11_Witness ==
    /\ Rendered
    /\ ChangesOf(lastFrame)[1].size = Some("5")
    /\ ChangesOf(lastFrame)[2].size = Some("0")
    /\ lines[1].size_label = "5"

\* a step of the receive loop that takes a text frame that parses
TextStep ==
    /\ pc = "streaming"
    /\ nframes' = nframes + 1
    /\ lastFrame'.kind = "Text"
    /\ Unwrap(lastFrame'.text).wellformed

\* the store is left alone and nothing is rendered
Ignored == ask_state' = ask_state /\ lines' = <<>>

\* C12: a text that parses takes the one route its event_type names:
\* "price_change" has the effect of the Reconciler, "book" the effect of the
\* Seeder, "last_trade_price" has no effect and no log, any other non-empty
\* value has no effect but the unhandled log, and a text without event_type
\* has no effect and no log; the other fields of the text play no part.
C12_RouteByEventType ==
    [][TextStep
        => LET text == Unwrap(lastFrame'.text)
               et   == text.event_type
           IN /\ et = Some("price_change")
                    => LET r == print_price_change(text, names_of(tokens), ask_state)
                       IN ask_state' = r.ask_state /\ lines' = r.lines /\ logs' = r.logs
              /\ et = Some("book")
                    => /\ ask_state' = seed_state_from_book(text, ask_state)
                       /\ lines' = <<>>
                       /\ logs' = <<>>
              /\ et = Some("last_trade_price") => (Ignored /\ logs' = <<>>)
              /\ et \notin {None, Some(""), Some("price_change"), Some("book"),
                            Some("last_trade_price")}
                    => (Ignored /\ logs' = <<"[WS] Unhandled event_type">>)
              /\ et = None => (Ignored /\ logs' = <<>>)]_vars

\* A settlement notice that carries book and price_change fields arrived
\* after two asks became known, and left them as they were.
C12_Witness ==
    /\ pc = "streaming"
    /\ lastFrame = TextFrame(BothShapes(Some("last_trade_price")))
    /\ ask_state["t1"] = Some(F64(52))
    /\ ask_state["t2"] = Some(F64(52))
    /\ logs = <<>>

\* C13: a text with event_type "last_trade_price", with an event_type ws.rs
\* does not know, or without event_type leaves the store as it was and
\* renders no line.
C13_OtherTextsNoEffect ==
    [][(TextStep /\ Unwrap(lastFrame'.text).event_type
                        \notin {Some("price_change"), Some("book")})
        => Ignored]_vars

\* A text without event_type that has the shape of a book for t2 arrived
\* when t2's ask was 0.52, and the ask is still 0.52.
C13_Witness ==
    /\ pc = "streaming"
    /\ lastFrame = TextFrame(BothShapes(None))
    /\ ask_state["t2"] = Some(F64(52))
    /\ lines = <<>>

\* a step of the receive loop that takes a price_change event
EventStep ==
    /\ TextStep
    /\ Unwrap(lastFrame'.text).event_type = Some("price_change")
    /\ IsSome(Unwrap(lastFrame'.text).price_changes)

\* the records of the event taken by an EventStep
StepChanges == Unwrap(Unwrap(lastFrame'.text).price_changes)

\* record c names token t and carries a best_ask that parses
WritesTo(c, t) == c.asset_id = Some(t) /\ IsSome(change_ask(c))

\* C14: after a price_change event the store holds, for every record with a
\* token id and a parseable best_ask, that best_ask (the last such record of a
\* token when the event names the token more than once), at any position of
\* an event of any length, and also when the event is too short to render.
C14_EveryRecordWritten ==
    [][EventStep
        => \A i \in 1..Len(StepChanges) : \A t \in TokenIds :
              (/\ WritesTo(StepChanges[i], t)
               /\ \A j \in (i+1)..Len(StepChanges) : ~WritesTo(StepChanges[j], t))
              => ask_state'[t] = change_ask(StepChanges[i])]_vars

\* The third record of an event set t2's ask to 0.5, which no book had, and
\* the first record alone of a rendered event set t1's ask to 0.46.
C14_Witness ==
    /\ pc = "streaming"
    /\ IsPriceChange(lastFrame)
    /\ Len(ChangesOf(lastFrame)) = 3
    /\ ChangesOf(lastFrame)[1].asset_id = Some("t1")
    /\ ChangesOf(lastFrame)[1].best_ask = Some(T046)
    /\ ChangesOf(lastFrame)[2].asset_id = None
    /\ ChangesOf(lastFrame)[3].asset_id = Some("t2")
    /\ ChangesOf(lastFrame)[3].best_ask = Some(T05)
    /\ ask_state["t1"] = Some(F64(46))
    /\ ask_state["t2"] = Some(F64(50))
    /\ Len(lines) = 1

\* C15: a price_change event changes the store only at keys that a record of
\* the event names as its token id together with a parseable best_ask; a
\* record without asset_id or without a parseable best_ask writes nowhere.
C15_OnlyNamedKeysChange ==
    [][EventStep
        => \A k \in Keys :
              ask_state'[k] # ask_state[k]
              => \E i \in 1..Len(StepChanges) : WritesTo(StepChanges[i], k)]_vars

BookStep == TextStep /\ Unwrap(lastFrame'.text).event_type = Some("book")

\* the price text of the last element of the asks of a book message, when the
\* message has asks, they are not empty and the last element has a price
LastPrice(text) ==
    IF text.asks = None \/ text.asks = Some(<<>>) THEN None
    ELSE Unwrap(text.asks)[Len(Unwrap(text.asks))].price

\* the book message names a token and the price of its last ask parses
Seeds(text) ==
    /\ IsSome(text.asset_id)
    /\ IsSome(LastPrice(text))
    /\ IsSome(ParseF64(Unwrap(LastPrice(text))))

\* C17: a book message with a token id and a last ask whose price parses sets
\* that token's entry to that price, whatever the entry was, changes no other
\* entry and renders no line; earlier elements of asks play no part.
C17_BookSeedsLastAsk ==
    [][(BookStep /\ Seeds(Unwrap(lastFrame'.text)))
        => LET text == Unwrap(lastFrame'.text)
           IN /\ ask_state' = [ask_state EXCEPT
                    ![Unwrap(text.asset_id)] = ParseF64(Unwrap(LastPrice(text)))]
              /\ lines' = <<>>]_vars

\* A book for t1 with asks 0.52, 0.44 (in that order) came after books had
\* seeded both tokens: t1 is 0.44, which no seed carried, t2 is as seeded.
C17_Witness ==
    /\ pc = "streaming"
    /\ IsBook(lastFrame)
    /\ Unwrap(lastFrame.text).asset_id = Some("t1")
    /\ Unwrap(lastFrame.text).asks = Some(<<Level(Some(T052)), Level(Some(T044))>>)
    /\ ask_state["t1"] = Some(F64(44))
    /\ ask_state["t2"] = Some(F64(48))
    /\ lines = <<>>

\* C18: a book message without a token id, without asks, with empty asks, or
\* whose last ask has no price or one that does not parse, leaves every entry
\* of the store as it was, whatever the earlier elements of asks are.
C18_BookNoOp ==
    [][(BookStep /\ ~Seeds(Unwrap(lastFrame'.text))) => ask_state' = ask_state]_vars

\* A book for t2 whose asks are 0.52 and then an unparseable price left t2's
\* seeded 0.46 in place.
C18_Witness ==
    /\ pc = "streaming"
    /\ IsBook(lastFrame)
    /\ Unwrap(lastFrame.text).asset_id = Some("t2")
    /\ Unwrap(lastFrame.text).asks = Some(<<Level(Some(T052)), Level(Some(TBad))>>)
    /\ ask_state["t2"] = Some(F64(46))
    /\ ask_state["t1"] = Some(F64(55))

\* the latest operation on the socket of a streaming connection failed: the
\* read of the next frame or the send of a pong
StreamFailed == io \in {"read_err", "pong_err"}

\* the supervisor is in its wait and the next thing it does is to start a new
\* attempt: no frame is read, the store and the output stay as they are
OnlyReconnects ==
    /\ pc' = "connecting"
    /\ nframes' = nframes
    /\ ask_state' = ask_state
    /\ lines' = <<>>

\* C19: once a read or a pong send has failed on a streaming connection, the
\* attempt has ended as a connection error and the supervisor is in its wait;
\* nothing more is read from that connection, and a new attempt follows.
C19_TransportFailureAborts ==
    /\ [](StreamFailed
            => /\ pc = "sleeping"
               /\ result = "err"
               /\ logs = <<"[WS] Connection error">>)
    /\ [][StreamFailed => OnlyReconnects]_vars
    /\ StreamFailed ~> (pc = "connecting" /\ result = "none")

\* A read failed on a connection that had learnt both asks.
C19_Witness ==
    /\ io = "read_err"
    /\ pc = "sleeping"
    /\ result = "err"
    /\ ask_state["t1"] = Some(F64(52))
    /\ ask_state["t2"] = Some(F64(44))

\* C20: a close frame ends the attempt as Ok, reported as a stream end after
\* the close is logged, and puts the supervisor in its wait; nothing more is
\* read from that connection, and a new attempt follows.
C20_CloseEndsCleanly ==
    /\ [][(pc = "streaming" /\ lastFrame' = CloseFrame)
            => /\ pc' = "sleeping"
               /\ result' = "ok"
               /\ io' = "ok"
               /\ logs' = <<"[WS] Server closed connection", "[WS] Stream ended">>
               /\ ask_state' = ask_state]_vars
    /\ [][lastFrame = CloseFrame => OnlyReconnects]_vars
    /\ (lastFrame = CloseFrame) ~> (pc = "connecting" /\ result = "none")

\* The server closed a connection that had learnt both asks.
C20_Witness ==
    /\ lastFrame = CloseFrame
    /\ pc = "sleeping"
    /\ result = "ok"
    /\ ask_state["t1"] = Some(F64(52))
    /\ ask_state["t2"] = Some(F64(44))

\* the attempt failed before the receive loop: at the connect or at the send
\* of the subscription
SetupFailed == io \in {"connect_err", "subscribe_err"}

\* C21: a failed connect sends no subscription and processes no frame, a
\* failed subscription send processes no frame; either ends the attempt as a
\* connection error followed by the wait and a new attempt. No frame is
\* handled outside the receive loop, and the loop is entered only by a
\* successful send of the subscription on the socket just opened.
C21_SetupFailureNoFrames ==
    /\ [](SetupFailed
            => /\ pc = "sleeping"
               /\ result = "err"
               /\ logs = <<"[WS] Connection error">>
               /\ nframes = 0
               /\ lastFrame = NoFrame)
    /\ [][(pc = "connecting" /\ io' = "connect_err")
            => /\ outbox' = <<>>
               /\ sub_sent' = sub_sent
               /\ nsubs' = 0
               /\ nconns' = 0
               /\ ask_state' = ask_state]_vars
    /\ [][(pc = "connected" /\ io' = "subscribe_err")
            => /\ ask_state' = ask_state
               /\ lines' = <<>>]_vars
    /\ [][SetupFailed => OnlyReconnects]_vars
    /\ [](pc \in {"connecting", "connected"} => (nframes = 0 /\ lastFrame = NoFrame))
    /\ [][(pc # "streaming" /\ pc' = "streaming")
            => /\ pc = "connected"
               /\ io' = "ok"
               /\ nconns' = 1
               /\ outbox' = <<sub_msg(tokens)>>]_vars
    /\ SetupFailed ~> (pc = "connecting" /\ result = "none")

\* The subscription send failed on a reconnect, after a connection that had
\* learnt t1's ask.
C21_Witness ==
    /\ io = "subscribe_err"
    /\ pc = "sleeping"
    /\ result = "err"
    /\ nframes = 0
    /\ ask_state["t1"] = Some(F64(52))

\* C22: every attempt that ends, as Ok or as Err, the first one or a later
\* one, puts the supervisor in a sleep of the same RECONNECT_SECS seconds, and
\* a new attempt starts only from the completion of that sleep.
C22_FixedWait ==
    /\ [](pc = "sleeping" <=> wait = RECONNECT_SECS)
    /\ [](pc # "sleeping" => wait = 0)
    /\ [][(result = "none" /\ result' # "none")
            => (pc' = "sleeping" /\ wait' = RECONNECT_SECS)]_vars
    /\ [][(pc # "connecting" /\ pc' = "connecting")
            => (pc = "sleeping" /\ wait = RECONNECT_SECS /\ result # "none")]_vars

\* The second connection, opened after one that knew both asks, was closed by
\* the server, and the supervisor waits the same time again.
C22_Witness ==
    /\ pc = "sleeping"
    /\ wait = RECONNECT_SECS
    /\ result = "ok"
    /\ lastFrame = CloseFrame
    /\ prior_asks

\* the receive loop takes a frame from the socket
FrameStep == pc = "streaming" /\ lastFrame'.kind # "none"

\* C23: each step of the receive loop takes one frame, and the store writes,
\* the line and the pong of that frame are all there when the step is over,
\* computed from the store as the frame before left it; between frames the
\* store does not change, and it holds what the frames carried in the order
\* they arrived.
C23_OneFrameAtATime ==
    /\ [][FrameStep
            => /\ pc' = "streaming" => nframes' = nframes + 1
               /\ lastFrame'.kind = "Text"
                    => LET r == handle_message(Unwrap(lastFrame'.text),
                                               names_of(tokens), ask_state)
                       IN /\ ask_state' = r.ask_state
                          /\ lines' = r.lines
                          /\ outbox' = <<>>
               /\ lastFrame'.kind = "Ping"
                    => /\ ask_state' = ask_state
                       /\ lines' = <<>>
                       /\ outbox' = <<PongFrame(Unwrap(lastFrame'.data))>>
               /\ lastFrame'.kind \notin {"Text", "Ping"}
                    => /\ ask_state' = ask_state
                       /\ lines' = <<>>
                       /\ outbox' = <<>>]_vars
    /\ [][(pc = "streaming" /\ ~FrameStep) => ask_state' = ask_state]_vars
    /\ [](pc = "streaming" => \A t \in {"t1", "t2"} : ask_state[t] = lastRecv[t])

\* A book set t1 to 0.52, a price_change then set it to 0.44, and the ping
\* that came third was answered in its own step.
C23_Witness ==
    /\ pc = "streaming"
    /\ nframes = 3
    /\ lastFrame = PingFrame("k1")
    /\ outbox = <<PongFrame("k1")>>
    /\ ask_state["t1"] = Some(F64(44))
    /\ ask_state["t2"] = Some(F64(52))
    /\ lastRecv["t1"] = Some(F64(44))

\* C24: with an empty startup table the supervisor can connect, can send the
\* subscription, whose assets_ids is then the empty list, and can read
\* frames, and a connection in the receive loop has sent that subscription.
C24_EmptyTokenList ==
    tokens = <<>>
    => /\ pc = "connecting" => ENABLED ConnectOk
       /\ pc = "connected" => ENABLED SubscribeOk
       /\ pc = "streaming"
            => /\ nsubs = 1
               /\ sub_sent = Some([assets_ids |-> <<>>, type |-> "market"])
       /\ (pc = "streaming" /\ nframes < MaxFrames)
            => (ENABLED RecvLifeText /\ ENABLED RecvPing /\ ENABLED RecvClose)
       /\ pc = "sleeping" => ENABLED SleepDone

\* With no startup tokens, a two-record price_change was rendered with the
\* placeholder names.
C24_Witness ==
    /\ tokens = <<>>
    /\ pc = "streaming"
    /\ Unwrap(sub_sent).assets_ids = <<>>
    /\ IsPriceChange(lastFrame)
    /\ Len(lines) = 1
    /\ lines[1].name_a = "Token A"
    /\ lines[1].name_b = "Token B"

\* the startup name of the token a record names, or the placeholder
DisplayName(change, placeholder) ==
    IF /\ IsSome(change.asset_id)
       /\ \E i \in 1..Len(tokens) : tokens[i].id = Unwrap(change.asset_id)
    THEN LET i == CHOOSE i \in 1..Len(tokens) : tokens[i].id = Unwrap(change.asset_id)
         IN tokens[i].name
    ELSE placeholder

C26_OtherFramesIgnored ==
    /\ [][(pc = "streaming" /\ lastFrame' \in IgnoredFrames)
            => /\ ask_state' = ask_state
               /\ outbox' = <<>>
               /\ lines' = <<>>
               /\ logs' = <<>>
               /\ pc' = "streaming"
               /\ result' = "none"
               /\ nframes' = nframes + 1]_vars
    /\ [](/\ pc = "streaming"
          /\ lastFrame \in IgnoredFrames
          /\ nframes < MaxFrames
          => (ENABLED RecvLifeText /\ ENABLED RecvPing))

\* A binary frame came after a book had set t1's ask, which is still there.
C26_Witness ==
    /\ pc = "streaming"
    /\ lastFrame = BinaryFrame
    /\ nframes = 2
    /\ ask_state["t1"] = Some(F64(52))
    /\ outbox = <<>>
    /\ lines = <<>>

\* the receive loop takes the text it took in the step before
SameTextStep ==
    /\ TextStep
    /\ nframes > 0
    /\ lastFrame' = lastFrame
    /\ Unwrap(lastFrame.text).event_type \in {Some("book"), Some("price_change")}

\* C27: when a book or a price_change text is processed a second time right
\* after the first, the second processing changes no entry of the store.
C27_StoreIdempotent == [][SameTextStep => ask_state' = ask_state]_vars

\* A three-record event that names t1 twice, with 0.46 and then 0.5, and has
\* a record without id, was processed twice: t1 holds 0.5.
C27_Witness ==
    /\ pc = "streaming"
    /\ nframes = MaxFrames
    /\ IsPriceChange(lastFrame)
    /\ Len(ChangesOf(lastFrame)) = 3
    /\ ChangesOf(lastFrame)[1].asset_id = Some("t1")
    /\ ChangesOf(lastFrame)[1].best_ask = Some(T046)
    /\ ChangesOf(lastFrame)[2].asset_id = None
    /\ ChangesOf(lastFrame)[2].best_ask = Some(T046)
    /\ ChangesOf(lastFrame)[3].asset_id = Some("t1")
    /\ ChangesOf(lastFrame)[3].best_ask = Some(T05)
    /\ ask_state["t1"] = Some(F64(50))

\* C28: at most one socket is open at any time, and one is open exactly
\* while an attempt is past its connect; a socket is opened only by an
\* attempt that starts with none open, an attempt starts only from the
\* completed wait that followed the end of the attempt before, and an open
\* socket has been sent at most one subscription.
C28_OneConnection ==
    /\ [](nconns <= 1)
    /\ [](nconns = 1 <=> pc \in {"connected", "streaming"})
    /\ [](nsubs <= nconns)
    /\ [][nconns' > nconns => (pc = "connecting" /\ nconns = 0)]_vars
    /\ [][(pc # "connecting" /\ pc' = "connecting")
            => (pc = "sleeping" /\ nconns = 0 /\ nframes = 0)]_vars

\* The second connection reads its first frame; the one before it, which
\* knew both asks, is gone.
C28_Witness ==
    /\ pc = "streaming"
    /\ nconns = 1
    /\ nsubs = 1
    /\ prior_asks
    /\ nframes = 1

\* C29: while a connection stays in its receive loop, a key that has an
\* entry in the store keeps having one: frames may replace its value, none
\* removes it.
C29_KnownStaysKnown ==
    [][(pc = "streaming" /\ pc' = "streaming")
        => \A k \in Keys : IsSome(ask_state[k]) => IsSome(ask_state'[k])]_vars

\* t1's ask had been set to 0.52 when a book for t1 with an empty asks array
\* arrived as the third frame; the entry is still there.
C29_Witness ==
    /\ pc = "streaming"
    /\ nframes = 3
    /\ IsBook(lastFrame)
    /\ Unwrap(lastFrame.text).asset_id = Some("t1")
    /\ Unwrap(lastFrame.text).asks = Some(<<>>)
    /\ ask_state["t1"] = Some(F64(52))
    /\ ask_state["t2"] = Some(F64(44))

\* the positions of the records of cs that name token t with a parseable
\* best_ask
WritersOf(cs, t) == {i \in 1..Len(cs) : WritesTo(cs[i], t)}

\* the best_ask of the last record of cs that names t with a parseable one
LastAskOf(cs, t) ==
    change_ask(cs[CHOOSE i \in WritersOf(cs, t) : \A j \in WritersOf(cs, t) : j <= i])

\* C30: after a price_change event in which several records name the same
\* token with a parseable best_ask, the store holds the best_ask of the last
\* of them, and the line of the event, if one is rendered, shows that value
\* where it shows that token.
C30_LastRecordOfTokenWins ==
    (pc = "streaming" /\ IsPriceChange(lastFrame))
    => LET cs == ChangesOf(lastFrame)
       IN \A t \in TokenIds :
             Cardinality(WritersOf(cs, t)) >= 2
             => /\ ask_state[t] = LastAskOf(cs, t)
                /\ Len(cs) >= 2
                    => /\ Len(lines) = 1
                       /\ cs[1].asset_id = Some(t)
                            => lines[1].ask_a_str = ask_str(LastAskOf(cs, t))
                       /\ cs[2].asset_id = Some(t)
                            => lines[1].ask_b_str = ask_str(LastAskOf(cs, t))

\* The event names t1 with 0.46 first and with 0.5 third, t2 with 0.46 in
\* between: the line shows 0.50 for token A and the store holds 0.5 for t1.
C30_Witness ==
    /\ Rendered
    /\ Len(ChangesOf(lastFrame)) = 3
    /\ ChangesOf(lastFrame)[1].asset_id = Some("t1")
    /\ ChangesOf(lastFrame)[1].best_ask = Some(T046)
    /\ ChangesOf(lastFrame)[2].asset_id = Some("t2")
    /\ ChangesOf(lastFrame)[2].best_ask = Some(T046)
    /\ ChangesOf(lastFrame)[3].asset_id = Some("t1")
    /\ ChangesOf(lastFrame)[3].best_ask = Some(T05)
    /\ ask_state["t1"] = Some(F64(50))
    /\ lines[1].ask_a_str = ask_str(Some(F64(50)))
    /\ lines[1].ask_b_str = ask_str(Some(F64(46)))

\* a price_change text whose price_changes is absent or not an array
NoArray(f) ==
    /\ f.kind = "Text"
    /\ Unwrap(f.text).wellformed
    /\ Unwrap(f.text).event_type = Some("price_change")
    /\ Unwrap(f.text).price_changes = None

\* C32: a price_change text without a price_changes array changes no entry
\* of the store, renders and logs nothing, and leaves the connection in the
\* receive loop, which can take the next frame.
C32_NoArrayNoEffect ==
    /\ [][(pc = "streaming" /\ NoArray(lastFrame'))
            => /\ ask_state' = ask_state
               /\ lines' = <<>>
               /\ logs' = <<>>
               /\ outbox' = <<>>
               /\ pc' = "streaming"
               /\ result' = "none"]_vars
    /\ [](/\ pc = "streaming"
          /\ NoArray(lastFrame)
          /\ nframes < MaxFrames
          => (ENABLED RecvLifeText /\ ENABLED RecvClose))

\* A price_change without array, with an asks level of 0.44 for t1, came
\* after a book had set t1 to 0.52: t1 is still 0.52.
C32_Witness ==
    /\ pc = "streaming"
    /\ lastFrame = TextFrame(NoArrayText)
    /\ nframes = 2
    /\ ask_state["t1"] = Some(F64(52))
    /\ lines = <<>>

\* C31: in the receive loop the store is the map that the startup table and
\* the texts of this connection determine by themselves, whatever pings and
\* other frames came in between and whatever earlier connections received;
\* the lines a text step prints are those that handle_message gives for the
\* text on that map, and a step that takes no text prints no line.
C31_FunctionOfTexts ==
    /\ [](pc = "streaming" => ask_state = text_store)
    /\ [][(pc = "streaming" /\ lastFrame'.kind = "Text" /\ nframes' = nframes + 1)
            => lines' = handle_message(Unwrap(lastFrame'.text), names_of(tokens),
                                       text_store).lines]_vars
    /\ [][(pc = "streaming" /\ ~(lastFrame'.kind = "Text" /\ nframes' = nframes + 1))
            => lines' = <<>>]_vars

\* On a connection opened after one that knew both asks, a book for t1, a
\* ping and a binary frame were received: the store has t1's ask alone.
C31_Witness ==
    /\ pc = "streaming"
    /\ prior_asks
    /\ nframes = 3
    /\ lastFrame = BinaryFrame
    /\ lastRecv["t1"] = Some(F64(52))
    /\ ask_state = [EmptyMap EXCEPT !["t1"] = Some(F64(52))]
    /\ text_store = ask_state

====
